---------------------------- MODULE Spec2Model ----------------------------
(***************************************************************************)
(* Model of the aconfig loader (legacy struct walker, Config.NewParser =   *)
(* false): LoaderFor builds the field descriptors and the flag set, Load   *)
(* applies defaults, files, environment and flags and then validates the   *)
(* required fields.                                                        *)
(*                                                                         *)
(* Strings are sequences of tokens: "APP_DB_HOST" is                       *)
(* <<"APP", "_", "DB", "_", "HOST">>, the empty string is <<>>.  A source  *)
(* value is NilV, Str(s) or MapV(m).                                       *)
(***************************************************************************)
EXTENDS Integers, Sequences, FiniteSets, TLC

VARIABLES
    pc,        \* position of the caller: new, ready, defaults, files, env, flags, required, done, panic
    dst,       \* the destination record type with its initial values (LoaderFor's dst)
    config,    \* Loader.config
    fields,    \* Loader.fields, each with its storage cell
    flagSet,   \* Loader.flagSet: formal (defined) flags, actual (set) flags, parsed
    errInit,   \* Loader.errInit
    err,       \* the error Load returned (NoErr while running or on success)
    missed     \* checkRequired's missedFields

vars == <<pc, dst, config, fields, flagSet, errInit, err, missed>>

-----------------------------------------------------------------------------
(* Strings and untyped source values *)

Nil == [t |-> "nil"]

NilV == [t |-> "nilv"]

Str(s) == [t |-> "str", s |-> s]

MapV(m) == [t |-> "map", m |-> m]

EmptyMap == [k \in {} |-> NilV]

NoErr == [kind |-> "none"]

Err(kind, key) == [kind |-> kind, key |-> key]

\* fmt.Errorf("<pass>: %w", err), with the key the error names.
Wrap(pass, e, key) == [kind |-> e.kind, key |-> key, pass |-> pass]

HasPrefix(s, p) == Len(p) <= Len(s) /\ SubSeq(s, 1, Len(p)) = p

Index(s, tok) ==
    IF \E i \in 1..Len(s) : s[i] = tok
    THEN CHOOSE i \in 1..Len(s) : s[i] = tok /\ \A j \in 1..(i - 1) : s[j] # tok
    ELSE 0

LastIndex(s, tok) ==
    IF \E i \in 1..Len(s) : s[i] = tok
    THEN CHOOSE i \in 1..Len(s) : s[i] = tok /\ \A j \in (i + 1)..Len(s) : s[j] # tok
    ELSE 0

\* cut(s, sep): the part of s before the first sep, and whether sep was found.
cut(s, sep) ==
    LET i == Index(s, sep)
    IN  IF i = 0 THEN [before |-> s, ok |-> FALSE]
        ELSE [before |-> SubSeq(s, 1, i - 1), ok |-> TRUE]

\* A map without one key (Go's delete).
Delete(m, k) == [x \in DOMAIN m \ {k} |-> m[x]]

\* A map with one key set (Go's m[k] = v).
Put(m, k, v) == [x \in DOMAIN m \cup {k} |-> IF x = k THEN v ELSE m[x]]

\* fmt.Sprint of a source value.
Sprint(v) == IF v.t = "str" THEN v.s ELSE <<"map[...]">>

\* strconv.ParseInt(s, 0, bits): base prefixes and signs are accepted.
IntLiterals ==
    [tok \in {"0", "1", "2", "+1", "0x2", "010"} |->
        CASE tok = "0" -> 0
          [] tok = "1" -> 1
          [] tok = "2" -> 2
          [] tok = "+1" -> 1
          [] tok = "0x2" -> 2
          [] tok = "010" -> 8]

ParseInt(s) ==
    IF Len(s) = 1 /\ s[1] \in DOMAIN IntLiterals
    THEN [ok |-> TRUE, n |-> IntLiterals[s[1]]]
    ELSE [ok |-> FALSE, n |-> 0]

-----------------------------------------------------------------------------
(* Field descriptors and the schema walk (reflection.go) *)

\* A member of a record type, with the value its cell holds before LoaderFor.
\* Type is string, int, ptrstring, chan, struct or ptrstruct.
NoTag == [env |-> <<>>, flag |-> <<>>, json |-> <<>>, default |-> <<>>, required |-> <<>>]

Zero(type) == IF type = "int" THEN 0 ELSE <<>>

ZeroCell(type) == [isNil |-> type = "ptrstring", v |-> Zero(type)]

Leaf(name, type, tag) ==
    [Name |-> name, Type |-> type, Anonymous |-> FALSE, CanSet |-> TRUE, Tag |-> tag,
     Members |-> <<>>, Cell |-> ZeroCell(type)]

Record(name, type, anonymous, tag, members) ==
    [Name |-> name, Type |-> type, Anonymous |-> anonymous, CanSet |-> TRUE, Tag |-> tag,
     Members |-> members, Cell |-> [isNil |-> type = "ptrstruct", v |-> <<>>]]

Upper ==
    [n \in {"A", "B", "N", "P", "C", "Db", "Host", "Port", "Inner"} |->
        CASE n = "Db" -> "DB" [] n = "Host" -> "HOST" [] n = "Port" -> "PORT"
          [] n = "Inner" -> "INNER" [] OTHER -> n]

Lower ==
    [n \in {"A", "B", "N", "P", "C", "Db", "Host", "Port", "Inner"} |->
        CASE n = "A" -> "a" [] n = "B" -> "b" [] n = "N" -> "n" [] n = "P" -> "p"
          [] n = "C" -> "c" [] n = "Db" -> "db" [] n = "Host" -> "host"
          [] n = "Port" -> "port" [] n = "Inner" -> "inner"]

\* makeName: the dotted path of the field under its parent.
makeName(name, parent) ==
    IF parent = Nil THEN <<name>> ELSE parent.name \o <<".", name>>

\* makeTagValue: the declared tag, or the name generated from the identifier.
makeTagValue(field, tag) ==
    IF field.Tag[tag] # <<>> THEN field.Tag[tag]
    ELSE IF tag = "env" THEN <<Upper[field.Name]>>
    ELSE <<Lower[field.Name]>>

tagsForField(field) ==
    [default |-> field.Tag.default,
     env |-> makeTagValue(field, "env"),
     flag |-> makeTagValue(field, "flag"),
     json |-> makeTagValue(field, "json")]

\* Mutant: any required tag is accepted.
newFieldDataAccepts(field) == FALSE

\* newFieldData panics on a required tag that is neither empty nor "true".
newFieldDataPanics(field) ==
    field.Tag.required # <<>> /\ field.Tag.required # <<"true">>

newFieldData(field, value, parent) ==
    [name |-> makeName(field.Name, parent),
     parent |-> parent,
     value |-> value,
     field |-> [Name |-> field.Name, Type |-> field.Type, Tag |-> field.Tag],
     isSet |-> FALSE,
     isRequired |-> field.Tag.required = <<"true">>,
     tags |-> tagsForField(field)]

Tag(f, tag) == IF tag \in DOMAIN f.tags THEN f.tags[tag] ELSE f.field.Tag[tag]

\* Mutant: an excluded ancestor contributes its declaration like any other.
RECURSIVE joinParentsAll(_, _, _, _)
joinParentsAll(p, tag, sep, res) ==
    IF p = Nil THEN res
    ELSE joinParentsAll(p.parent, tag, sep, Tag(p, tag) \o sep \o res)

RECURSIVE joinParents(_, _, _, _)
joinParents(p, tag, sep, res) ==
    IF p = Nil THEN res
    ELSE joinParents(p.parent, tag, sep,
                     IF Tag(p, tag) # <<"-">> THEN Tag(p, tag) \o sep \o res ELSE res)

\* Mutant: the file formats use the flag delimiter.
fullTagOneDelimiter(l, prefix, f, tag) ==
    LET sep == IF tag = "env" THEN l.envDelimiter ELSE l.FlagDelimiter
        res == Tag(f, tag)
    IN  IF res = <<"-">> THEN <<>>
        ELSE IF cut(res, ",exact").ok THEN cut(res, ",exact").before
        ELSE IF cut(res, ",omitempty").ok THEN cut(res, ",omitempty").before
        ELSE prefix \o joinParents(f.parent, tag, sep, res)

\* l: the loader's config at the time of the call.
fullTag(l, prefix, f, tag) ==
    LET sep == IF tag = "env" THEN l.envDelimiter
               ELSE IF tag = "flag" THEN l.FlagDelimiter
               ELSE <<".">>
        res == Tag(f, tag)
    IN  IF res = <<"-">> THEN <<>>
        ELSE IF cut(res, ",exact").ok THEN cut(res, ",exact").before
        ELSE IF cut(res, ",omitempty").ok THEN cut(res, ",omitempty").before
        ELSE prefix \o joinParents(f.parent, tag, sep, res)

\* The walk over the members of one record value; fresh: the record is one the
\* walk itself allocated, so its cells are zero.
RECURSIVE getFieldsHelper(_, _, _)
getFieldsHelper(members, parent, fresh) ==
    IF members = <<>> THEN [fields |-> <<>>, panic |-> FALSE]
    ELSE
        LET Both(these, rest) ==
                [fields |-> these.fields \o rest.fields, panic |-> these.panic \/ rest.panic]
            Member(m, fd) ==
                IF m.Type \in {"struct", "ptrstruct"}
                THEN getFieldsHelper(m.Members, IF m.Anonymous THEN parent ELSE fd,
                                     fresh \/ m.Type = "ptrstruct")
                ELSE [fields |-> <<fd>>, panic |-> FALSE]
            Walk(m) ==
                IF ~m.CanSet THEN [fields |-> <<>>, panic |-> FALSE]
                ELSE IF newFieldDataPanics(m) THEN [fields |-> <<>>, panic |-> TRUE]
                ELSE Member(m, newFieldData(m, IF fresh THEN ZeroCell(m.Type) ELSE m.Cell,
                                            parent))
        IN  Both(Walk(Head(members)), getFieldsHelper(Tail(members), parent, fresh))

getFields(x) == getFieldsHelper(x, Nil, FALSE)

\* setFieldData: the field after coercing value into its cell, and the error.
setFieldData(field, value) ==
    IF value = NilV THEN [field |-> field, err |-> NoErr]
    ELSE
        LET unwrapped == IF field.field.Type = "ptrstring"
                         THEN [field EXCEPT !.value.isNil = FALSE]
                         ELSE field
            kind == IF field.field.Type = "ptrstring" THEN "string" ELSE field.field.Type
        IN  IF value = Str(<<>>) THEN [field |-> unwrapped, err |-> NoErr]
            ELSE IF kind = "string"
            THEN [field |-> [unwrapped EXCEPT !.value.v = Sprint(value)], err |-> NoErr]
            ELSE IF kind = "int"
            THEN IF ParseInt(Sprint(value)).ok
                 THEN [field |-> [unwrapped EXCEPT !.value.v = ParseInt(Sprint(value)).n],
                       err |-> NoErr]
                 ELSE [field |-> unwrapped, err |-> Err("parse", field.name)]
            ELSE [field |-> unwrapped, err |-> Err("unsupported", field.name)]

-----------------------------------------------------------------------------
(* The file system the loader reads: each file that exists, with what its     *)
(* decoder returns (ok: the decoding succeeded, m: the decoded map).          *)

Decoded(m) == [ok |-> TRUE, m |-> m]

OneKey(k, v) == [x \in {k} |-> v]

TwoKeys(k1, v1, k2, v2) == [x \in {k1, k2} |-> IF x = k1 THEN v1 ELSE v2]

BaseFile == <<"base", ".json">>

OverrideFile == <<"override", ".json">>

EmptyValueFile == <<"empty", ".json">>

NullFile == <<"null", ".json">>

ExtraFile == <<"extra", ".json">>

NestedFile == <<"nested", ".JSON">>

BadFile == <<"bad", ".json">>

YamlFile == <<"conf", ".yaml">>

MissingFile == <<"missing", ".json">>

fsys ==
    [f \in {BaseFile, OverrideFile, EmptyValueFile, NullFile, ExtraFile, NestedFile,
            BadFile, YamlFile} |->
        CASE f = BaseFile -> Decoded(TwoKeys(<<"a">>, Str(<<"f1">>), <<"n">>, Str(<<"2">>)))
          [] f = OverrideFile -> Decoded(OneKey(<<"a">>, Str(<<"f2">>)))
          [] f = EmptyValueFile -> Decoded(OneKey(<<"a">>, Str(<<>>)))
          [] f = NullFile -> Decoded(OneKey(<<"a">>, NilV))
          [] f = ExtraFile -> Decoded(TwoKeys(<<"a">>, Str(<<"f3">>), <<"zzz">>, Str(<<"u">>)))
          [] f = NestedFile ->
                Decoded(TwoKeys(<<"a">>, Str(<<"f4">>),
                                <<"db">>, MapV(TwoKeys(<<"host">>, Str(<<"h">>),
                                                       <<"port">>, Str(<<"010">>)))))
          [] f = BadFile -> [ok |-> FALSE, m |-> EmptyMap]
          [] f = YamlFile -> Decoded(OneKey(<<"a">>, Str(<<"y">>)))]

-----------------------------------------------------------------------------
(* The source passes (aconfig.go).  A result r of a call is handed on as   *)
(* the argument of a local operator wherever the code reads it again.      *)

\* loadDefaults, from field i on.
RECURSIVE loadDefaultsFrom(_, _)
loadDefaultsFrom(fs, i) ==
    IF i > Len(fs) THEN [fields |-> fs, err |-> NoErr]
    ELSE
        LET Then(defaultValue, r) ==
                IF r.err # NoErr THEN [fields |-> [fs EXCEPT ![i] = r.field], err |-> r.err]
                ELSE loadDefaultsFrom(
                        [fs EXCEPT ![i] = [r.field EXCEPT !.isSet = (defaultValue # <<>>)]],
                        i + 1)
        IN  Then(Tag(fs[i], "default"), setFieldData(fs[i], Str(Tag(fs[i], "default"))))

loadDefaults(fs) == loadDefaultsFrom(fs, 1)

\* The map with the nested map at subName, if there is one, replaced by its
\* entries under dotted keys.
flatten(af, subName) ==
    IF subName \notin DOMAIN af THEN af
    ELSE IF af[subName].t # "map" THEN af
    ELSE
        LET val == af[subName].m
            flat == {subName \o <<".">> \o i : i \in DOMAIN val}
        IN  [k \in (DOMAIN af \ {subName}) \cup flat |->
                IF k \in flat THEN val[SubSeq(k, Len(subName) + 2, Len(k))] ELSE af[k]]

\* find: the decoded map with the nested map that holds name flattened into
\* dotted keys, outermost level first.
RECURSIVE find(_, _)
find(actualFields, name) ==
    IF LastIndex(name, ".") = 0 THEN actualFields
    ELSE IF SubSeq(name, 1, LastIndex(name, ".") - 1) \in DOMAIN actualFields
    THEN flatten(actualFields, SubSeq(name, 1, LastIndex(name, ".") - 1))
    ELSE flatten(find(actualFields, SubSeq(name, 1, LastIndex(name, ".") - 1)),
                 SubSeq(name, 1, LastIndex(name, ".") - 1))

\* Mutant: the key a field was set from stays in the decoded map.
loadFileFieldKeepsKey(field, actualFields) ==
    LET Set(name, found, r) ==
            IF r.err # NoErr THEN [field |-> r.field, actualFields |-> found, err |-> r.err]
            ELSE [field |-> [r.field EXCEPT !.isSet = TRUE],
                  actualFields |-> found, err |-> NoErr]
        Found(name, found) ==
            IF name \notin DOMAIN found
            THEN [field |-> field, actualFields |-> found, err |-> NoErr]
            ELSE Set(name, found, setFieldData(field, found[name]))
        Named(name) ==
            IF name = <<>> THEN [field |-> field, actualFields |-> actualFields, err |-> NoErr]
            ELSE Found(name, IF name \in DOMAIN actualFields THEN actualFields
                             ELSE find(actualFields, name))
    IN  Named(fullTag(config, <<>>, field, "json"))

\* One iteration of loadFile's field loop: the field, the decoded map and the
\* error after it.
loadFileField(field, actualFields) ==
    LET Set(name, found, r) ==
            IF r.err # NoErr THEN [field |-> r.field, actualFields |-> found, err |-> r.err]
            ELSE [field |-> [r.field EXCEPT !.isSet = TRUE],
                  actualFields |-> Delete(found, name), err |-> NoErr]
        Found(name, found) ==
            IF name \notin DOMAIN found
            THEN [field |-> field, actualFields |-> found, err |-> NoErr]
            ELSE Set(name, found, setFieldData(field, found[name]))
        Named(name) ==
            IF name = <<>> THEN [field |-> field, actualFields |-> actualFields, err |-> NoErr]
            ELSE Found(name, IF name \in DOMAIN actualFields THEN actualFields
                             ELSE find(actualFields, name))
    IN  Named(fullTag(config, <<>>, field, "json"))

\* The field loop of loadFile, from field i on.
RECURSIVE loadFileFrom(_, _, _)
loadFileFrom(fs, i, actualFields) ==
    IF i > Len(fs) THEN [fields |-> fs, err |-> NoErr, actualFields |-> actualFields]
    ELSE
        LET Then(r) ==
                IF r.err # NoErr
                THEN [fields |-> [fs EXCEPT ![i] = r.field], err |-> r.err,
                      actualFields |-> r.actualFields]
                ELSE loadFileFrom([fs EXCEPT ![i] = r.field], i + 1, r.actualFields)
        IN  Then(loadFileField(fs[i], actualFields))

\* filepath.Ext lowered: the last token of the file name.
Ext(file) ==
    IF file = <<>> THEN ""
    ELSE IF file[Len(file)] = ".JSON" THEN ".json"
    ELSE file[Len(file)]

FileDecoders == {".json"}

\* loadFile; unknown: the keys one of which the unknown-field error names.
loadFile(fs, file) ==
    IF Ext(file) \notin FileDecoders
    THEN [fields |-> fs, err |-> Err("format", file), unknown |-> {}]
    ELSE IF ~fsys[file].ok
    THEN [fields |-> fs, err |-> Err("decode", file), unknown |-> {}]
    ELSE
        LET Then(r) ==
                IF r.err # NoErr THEN [fields |-> r.fields, err |-> r.err, unknown |-> {}]
                ELSE IF ~config.AllowUnknownFields /\ DOMAIN r.actualFields # {}
                THEN [fields |-> r.fields, err |-> Err("unknownField", file),
                      unknown |-> DOMAIN r.actualFields]
                ELSE [fields |-> r.fields, err |-> NoErr, unknown |-> {}]
        IN  Then(loadFileFrom(fs, 1, fsys[file].m))

\* getActualFlag: whether the flag was set, and its value.
getActualFlag(name, fset) ==
    IF name \in DOMAIN fset.actual THEN [found |-> TRUE, value |-> fset.actual[name]]
    ELSE [found |-> FALSE, value |-> <<>>]

\* loadFileFlag: Config.Files after the file flag, and the error.
loadFileFlag(files) ==
    LET Then(fileFlag) ==
            IF ~fileFlag.found THEN [files |-> files, err |-> NoErr]
            ELSE IF fileFlag.value = <<>>
            THEN [files |-> files, err |-> Err("emptyFileFlag", config.FileFlag)]
            ELSE IF config.MergeFiles
            THEN [files |-> Append(files, fileFlag.value), err |-> NoErr]
            ELSE [files |-> <<fileFlag.value>>, err |-> NoErr]
    IN  Then(getActualFlag(config.FileFlag, flagSet))

\* Mutant: every existing file is loaded whatever MergeFiles says.
RECURSIVE loadFilesMerging(_, _, _)
loadFilesMerging(fs, files, i) ==
    IF i > Len(files) THEN [fields |-> fs, err |-> NoErr, unknown |-> {}]
    ELSE IF files[i] \notin DOMAIN fsys
    THEN IF config.FailOnFileNotFound
         THEN [fields |-> fs, err |-> Err("notExist", files[i]), unknown |-> {}]
         ELSE loadFilesMerging(fs, files, i + 1)
    ELSE
        LET Then(r) ==
                IF r.err # NoErr THEN r
                ELSE loadFilesMerging(r.fields, files, i + 1)
        IN  Then(loadFile(fs, files[i]))

\* The file loop of loadFiles, from file i on.
RECURSIVE loadFilesFrom(_, _, _)
loadFilesFrom(fs, files, i) ==
    IF i > Len(files) THEN [fields |-> fs, err |-> NoErr, unknown |-> {}]
    ELSE IF files[i] \notin DOMAIN fsys
    THEN IF config.FailOnFileNotFound
         THEN [fields |-> fs, err |-> Err("notExist", files[i]), unknown |-> {}]
         ELSE loadFilesFrom(fs, files, i + 1)
    ELSE
        LET Then(r) ==
                IF r.err # NoErr THEN r
                ELSE IF ~config.MergeFiles THEN r
                ELSE loadFilesFrom(r.fields, files, i + 1)
        IN  Then(loadFile(fs, files[i]))

loadFiles(fs) ==
    LET Loaded(files, r) ==
            [fields |-> r.fields, err |-> r.err, unknown |-> r.unknown, files |-> files]
        Then(ff) ==
            IF ff.err # NoErr
            THEN [fields |-> fs, err |-> ff.err, unknown |-> {}, files |-> ff.files]
            ELSE Loaded(ff.files, loadFilesFrom(fs, ff.files, 1))
    IN  Then(IF config.FileFlag # <<>> THEN loadFileFlag(config.Files)
             ELSE [files |-> config.Files, err |-> NoErr])

\* getEnv: NAME=VALUE strings as a map; a later entry of the same name wins.
RECURSIVE getEnv(_)
getEnv(envs) ==
    IF envs = <<>> THEN EmptyMap
    ELSE
        LET Then(s, j, res) ==
                IF j = 0 THEN res
                ELSE Put(res, SubSeq(s, 1, j - 1), Str(SubSeq(s, j + 1, Len(s))))
        IN  Then(envs[Len(envs)], Index(envs[Len(envs)], "="),
                 getEnv(SubSeq(envs, 1, Len(envs) - 1)))

\* getFlags: the flags that were set, by name.
getFlags(fset) == [n \in DOMAIN fset.actual |-> Str(fset.actual[n])]

\* Mutant: a field an earlier pass has set is not written again.
setFieldFirstWins(field, name, values, dupls) ==
    IF ~config.AllowDuplicates /\ name \in dupls
    THEN [field |-> field, values |-> values, dupls |-> dupls,
          err |-> Err("duplicate", name)]
    ELSE IF name \notin DOMAIN values \/ field.isSet
    THEN [field |-> field, values |-> values,
          dupls |-> IF ~config.AllowDuplicates THEN dupls \cup {name} ELSE dupls,
          err |-> NoErr]
    ELSE [field |-> [setFieldData(field, values[name]).field EXCEPT !.isSet = TRUE],
          values |-> values,
          dupls |-> IF ~config.AllowDuplicates THEN dupls \cup {name} ELSE dupls,
          err |-> setFieldData(field, values[name]).err]

\* Mutant: a key that an earlier field resolved to is accepted again.
setFieldNoDuplicateCheck(field, name, values, dupls) ==
    IF name \notin DOMAIN values
    THEN [field |-> field, values |-> values, dupls |-> dupls \cup {name}, err |-> NoErr]
    ELSE IF setFieldData(field, values[name]).err # NoErr
    THEN [field |-> setFieldData(field, values[name]).field, values |-> values,
          dupls |-> dupls \cup {name}, err |-> setFieldData(field, values[name]).err]
    ELSE [field |-> [setFieldData(field, values[name]).field EXCEPT !.isSet = TRUE],
          values |-> values, dupls |-> dupls \cup {name}, err |-> NoErr]

setField(field, name, values, dupls) ==
    IF ~config.AllowDuplicates /\ name \in dupls
    THEN [field |-> field, values |-> values, dupls |-> dupls,
          err |-> Err("duplicate", name)]
    ELSE
        LET Set(dupls1, r) ==
                IF r.err # NoErr
                THEN [field |-> r.field, values |-> values, dupls |-> dupls1, err |-> r.err]
                ELSE [field |-> [r.field EXCEPT !.isSet = TRUE],
                      values |-> IF ~config.AllowDuplicates
                                 THEN Delete(values, name) ELSE values,
                      dupls |-> dupls1, err |-> NoErr]
            Then(dupls1) ==
                IF name \notin DOMAIN values
                THEN [field |-> field, values |-> values, dupls |-> dupls1, err |-> NoErr]
                ELSE Set(dupls1, setFieldData(field, values[name]))
        IN  Then(IF ~config.AllowDuplicates THEN dupls \cup {name} ELSE dupls)

\* One iteration of the field loop of loadEnvironment and of loadFlags.
setFieldByTag(field, prefix, tag, values, dupls) ==
    LET Named(name) ==
            IF name = <<>>
            THEN [field |-> field, values |-> values, dupls |-> dupls, err |-> NoErr]
            ELSE setField(field, name, values, dupls)
    IN  Named(fullTag(config, prefix, field, tag))

\* The field loop of loadEnvironment and of loadFlags, from field i on.
RECURSIVE setFieldsFrom(_, _, _, _, _, _)
setFieldsFrom(fs, i, prefix, tag, values, dupls) ==
    IF i > Len(fs) THEN [fields |-> fs, values |-> values, dupls |-> dupls, err |-> NoErr]
    ELSE
        LET Then(r) ==
                IF r.err # NoErr
                THEN [fields |-> [fs EXCEPT ![i] = r.field], values |-> r.values,
                      dupls |-> r.dupls, err |-> r.err]
                ELSE setFieldsFrom([fs EXCEPT ![i] = r.field], i + 1, prefix, tag,
                                   r.values, r.dupls)
        IN  Then(setFieldByTag(fs[i], prefix, tag, values, dupls))

\* Mutant: the check runs without a prefix too.
postEnvCheckAnyPrefix(values, dupls) ==
    IF config.AllowUnknownEnvs THEN {}
    ELSE {env \in DOMAIN values \ dupls : HasPrefix(env, config.EnvPrefix)}

\* postEnvCheck: the environment variables one of which the error names.
postEnvCheck(values, dupls) ==
    IF config.AllowUnknownEnvs \/ config.EnvPrefix = <<>> THEN {}
    ELSE {env \in DOMAIN values \ dupls : HasPrefix(env, config.EnvPrefix)}

loadEnvironment(fs) ==
    LET Checked(r, unknown) ==
            IF unknown # {}
            THEN [fields |-> r.fields, err |-> Err("unknownEnv", <<>>), unknown |-> unknown]
            ELSE [fields |-> r.fields, err |-> NoErr, unknown |-> {}]
        Then(r) ==
            IF r.err # NoErr THEN [fields |-> r.fields, err |-> r.err, unknown |-> {}]
            ELSE Checked(r, postEnvCheck(r.values, r.dupls))
    IN  Then(setFieldsFrom(fs, 1, config.EnvPrefix, "env", getEnv(config.Envs), {}))

\* postFlagCheck: the flags one of which the error names.
postFlagCheck(values, dupls) ==
    IF config.AllowUnknownFlags \/ config.FlagPrefix = <<>> THEN {}
    ELSE {flag \in DOMAIN values \ dupls : HasPrefix(flag, config.FlagPrefix)}

loadFlags(fs) ==
    LET Checked(r, unknown) ==
            IF unknown # {}
            THEN [fields |-> r.fields, err |-> Err("unknownFlag", <<>>), unknown |-> unknown]
            ELSE [fields |-> r.fields, err |-> NoErr, unknown |-> {}]
        Then(r) ==
            IF r.err # NoErr THEN [fields |-> r.fields, err |-> r.err, unknown |-> {}]
            ELSE Checked(r, postFlagCheck(r.values, r.dupls))
    IN  Then(setFieldsFrom(fs, 1, config.FlagPrefix, "flag", getFlags(flagSet), {}))

\* strings.Join.
RECURSIVE Join(_, _)
Join(elems, sep) ==
    IF elems = <<>> THEN <<>>
    ELSE IF Len(elems) = 1 THEN elems[1]
    ELSE elems[1] \o sep \o Join(Tail(elems), sep)

\* Mutant: the loop stops at the first missing field.
RECURSIVE missedFieldsFirst(_, _)
missedFieldsFirst(fs, i) ==
    IF i > Len(fs) THEN <<>>
    ELSE IF ~fs[i].isSet /\ (fs[i].isRequired \/ config.AllFieldRequired)
    THEN <<fs[i].name>>
    ELSE missedFieldsFirst(fs, i + 1)

\* The loop of checkRequired, from field i on: missedFields.
RECURSIVE missedFieldsFrom(_, _)
missedFieldsFrom(fs, i) ==
    IF i > Len(fs) THEN <<>>
    ELSE (IF ~fs[i].isSet /\ (fs[i].isRequired \/ config.AllFieldRequired)
          THEN <<fs[i].name>> ELSE <<>>) \o missedFieldsFrom(fs, i + 1)

\* checkRequired: missedFields and the error.
checkRequired(fs) ==
    LET Then(missedFields) ==
            [missed |-> missedFields,
             err |-> IF missedFields = <<>> THEN NoErr
                     ELSE Err("required", Join(missedFields, <<",">>))]
    IN  Then(missedFieldsFrom(fs, 1))

-----------------------------------------------------------------------------
(* Construction (LoaderFor, init) and flag parsing *)

\* The flag registration loop of init, from field i on: the flags defined, the
\* init error, and whether flag.FlagSet.String panicked on a redefined flag.
RECURSIVE registerFlagsFrom(_, _, _, _)
registerFlagsFrom(l, fs, i, names) ==
    IF i > Len(fs) THEN [formal |-> names, err |-> NoErr, panic |-> FALSE]
    ELSE
        LET Named(flagName) ==
                IF flagName = <<>> THEN registerFlagsFrom(l, fs, i + 1, names)
                ELSE IF flagName \in names /\ ~l.AllowDuplicates
                THEN [formal |-> names, err |-> Err("duplicateFlag", flagName),
                      panic |-> FALSE]
                ELSE IF flagName \in names
                THEN [formal |-> names, err |-> NoErr, panic |-> TRUE]
                ELSE registerFlagsFrom(l, fs, i + 1, names \cup {flagName})
        IN  Named(fullTag(l, l.FlagPrefix, fs[i], "flag"))

\* init: the prefixes and delimiters of the loader's config.
initConfig(cfg) ==
    LET Prefixed(c1) ==
            [c1 EXCEPT !.EnvPrefix = IF @ # <<>> THEN @ \o c1.envDelimiter ELSE @,
                       !.FlagPrefix = IF @ # <<>> THEN @ \o c1.FlagDelimiter ELSE @]
    IN  Prefixed([cfg EXCEPT !.envDelimiter = <<"_">>,
                             !.FlagDelimiter = IF @ = <<>> THEN <<".">> ELSE @])

\* flag.FlagSet.Parse over -name=value arguments: the flag set and the error.
RECURSIVE Parse(_, _)
Parse(fset, args) ==
    IF args = <<>> THEN [flagSet |-> [fset EXCEPT !.parsed = TRUE], err |-> NoErr]
    ELSE
        LET Then(name, value) ==
                IF name \notin fset.formal
                THEN [flagSet |-> [fset EXCEPT !.parsed = TRUE],
                      err |-> Err("undefinedFlag", name)]
                ELSE Parse([fset EXCEPT !.actual = Put(@, name, value)], Tail(args))
        IN  Then(SubSeq(Head(args), 2, Index(Head(args), "=") - 1),
                 SubSeq(Head(args), Index(Head(args), "=") + 1, Len(Head(args))))

parseFlags(fset) ==
    IF fset.parsed \/ config.SkipFlags THEN [flagSet |-> fset, err |-> NoErr]
    ELSE Parse(fset, config.Args)

\* init: the config, the fields, the flag set and the init error of the new
\* loader; panic: the schema walk or the flag registration panicked.
init(cfg, x) ==
    LET Registered(l, walk, reg) ==
            [panic |-> walk.panic \/ reg.panic
                       \/ (reg.err = NoErr /\ l.FileFlag # <<>> /\ l.FileFlag \in reg.formal),
             config |-> l,
             fields |-> walk.fields,
             errInit |-> reg.err,
             formal |-> IF reg.err = NoErr /\ l.FileFlag # <<>>
                        THEN reg.formal \cup {l.FileFlag} ELSE reg.formal]
        Walked(l, walk) ==
            Registered(l, walk,
                       IF walk.panic \/ l.SkipFlags
                       THEN [formal |-> {}, err |-> NoErr, panic |-> FALSE]
                       ELSE registerFlagsFrom(l, walk.fields, 1, {}))
        Configured(l) == Walked(l, getFields(x))
    IN  Configured(initConfig(cfg))

-----------------------------------------------------------------------------
(* The operations *)

EmptyFlagSet == [formal |-> {}, actual |-> [n \in {} |-> <<>>], parsed |-> FALSE]

\* LoaderFor: a panic (a malformed required tag, a redefined flag) ends the
\* program before there is a loader.
LoaderFor ==
    /\ pc = "new"
    /\ \E l \in {init(config, dst)} :
          IF l.panic
          THEN /\ pc' = "panic"
               /\ UNCHANGED <<config, fields, flagSet, errInit>>
          ELSE /\ pc' = "ready"
               /\ config' = l.config
               /\ fields' = l.fields
               /\ errInit' = l.errInit
               /\ flagSet' = [EmptyFlagSet EXCEPT !.formal = l.formal]
    /\ UNCHANGED <<dst, err, missed>>

\* Load up to the first pass: the init error, then parseFlags.
Load ==
    /\ pc = "ready"
    /\ IF errInit # NoErr
       THEN /\ err' = Wrap("init loader", errInit, errInit.key)
            /\ pc' = "done"
            /\ UNCHANGED flagSet
       ELSE \E r \in {parseFlags(flagSet)} :
                /\ flagSet' = r.flagSet
                /\ IF r.err # NoErr
                   THEN err' = Wrap("load config", r.err, r.err.key) /\ pc' = "done"
                   ELSE err' = err /\ pc' = "defaults"
    /\ UNCHANGED <<dst, config, fields, errInit, missed>>

LoadDefaults ==
    /\ pc = "defaults"
    /\ IF config.SkipDefaults
       THEN pc' = "files" /\ UNCHANGED <<fields, err>>
       ELSE \E r \in {loadDefaults(fields)} :
                /\ fields' = r.fields
                /\ IF r.err # NoErr
                   THEN err' = Wrap("load defaults", r.err, r.err.key) /\ pc' = "done"
                   ELSE err' = err /\ pc' = "files"
    /\ UNCHANGED <<dst, config, flagSet, errInit, missed>>

LoadFiles ==
    /\ pc = "files"
    /\ IF config.SkipFiles
       THEN pc' = "env" /\ UNCHANGED <<fields, err, config>>
       ELSE \E r \in {loadFiles(fields)} :
                /\ fields' = r.fields
                /\ config' = [config EXCEPT !.Files = r.files]
                /\ IF r.err = NoErr THEN err' = err /\ pc' = "env"
                   ELSE /\ pc' = "done"
                        /\ IF r.unknown = {}
                           THEN err' = Wrap("load files", r.err, r.err.key)
                           ELSE \E k \in r.unknown : err' = Wrap("load files", r.err, k)
    /\ UNCHANGED <<dst, flagSet, errInit, missed>>

LoadEnvironment ==
    /\ pc = "env"
    /\ IF config.SkipEnv
       THEN pc' = "flags" /\ UNCHANGED <<fields, err>>
       ELSE \E r \in {loadEnvironment(fields)} :
                /\ fields' = r.fields
                /\ IF r.err = NoErr THEN err' = err /\ pc' = "flags"
                   ELSE /\ pc' = "done"
                        /\ IF r.unknown = {}
                           THEN err' = Wrap("load environment", r.err, r.err.key)
                           ELSE \E k \in r.unknown : err' = Wrap("load environment", r.err, k)
    /\ UNCHANGED <<dst, config, flagSet, errInit, missed>>

LoadFlags ==
    /\ pc = "flags"
    /\ IF config.SkipFlags
       THEN pc' = "required" /\ UNCHANGED <<fields, err>>
       ELSE \E r \in {loadFlags(fields)} :
                /\ fields' = r.fields
                /\ IF r.err = NoErr THEN err' = err /\ pc' = "required"
                   ELSE /\ pc' = "done"
                        /\ IF r.unknown = {}
                           THEN err' = Wrap("load flags", r.err, r.err.key)
                           ELSE \E k \in r.unknown : err' = Wrap("load flags", r.err, k)
    /\ UNCHANGED <<dst, config, flagSet, errInit, missed>>

CheckRequired ==
    /\ pc = "required"
    /\ \E r \in {checkRequired(fields)} :
          /\ missed' = r.missed
          /\ err' = IF r.err = NoErr THEN NoErr ELSE Wrap("load config", r.err, r.err.key)
    /\ pc' = "done"
    /\ UNCHANGED <<dst, config, fields, flagSet, errInit>>

Next ==
    \/ LoaderFor
    \/ Load
    \/ LoadDefaults
    \/ LoadFiles
    \/ LoadEnvironment
    \/ LoadFlags
    \/ CheckRequired

-----------------------------------------------------------------------------
(* The destinations and configurations the loader is constructed with *)

MaxFiles == 2

MaxEnvs == 2

MaxArgs == 2

DefaultConfig ==
    [NewParser |-> FALSE,
     SkipDefaults |-> FALSE, SkipFiles |-> FALSE, SkipEnv |-> FALSE, SkipFlags |-> FALSE,
     EnvPrefix |-> <<>>, FlagPrefix |-> <<>>, envDelimiter |-> <<>>, FlagDelimiter |-> <<>>,
     AllFieldRequired |-> FALSE, AllowDuplicates |-> FALSE, AllowUnknownFields |-> FALSE,
     AllowUnknownEnvs |-> FALSE, AllowUnknownFlags |-> FALSE,
     FailOnFileNotFound |-> FALSE, MergeFiles |-> FALSE,
     FileFlag |-> <<>>, Files |-> <<>>, Envs |-> <<>>, Args |-> <<>>]

\* The elements of pool at the indices I, in pool order.
RECURSIVE Pick(_, _)
Pick(pool, I) ==
    IF I = {} THEN <<>>
    ELSE LET i == CHOOSE x \in I : \A y \in I : x <= y
         IN  <<pool[i]>> \o Pick(pool, I \ {i})

\* The sublists of pool of at most n elements.
Sublists(pool, n) == {Pick(pool, I) : I \in {J \in SUBSET (1..Len(pool)) : Cardinality(J) <= n}}

\* The lists of at most n elements of S.
Lists(S, n) == UNION {[1..k -> S] : k \in 0..n}

A == Leaf("A", "string", NoTag)

Adef == Leaf("A", "string", [NoTag EXCEPT !.default = <<"d">>])

Areq == Leaf("A", "string", [NoTag EXCEPT !.required = <<"true">>])

Areqdef == Leaf("A", "string", [NoTag EXCEPT !.required = <<"true">>, !.default = <<"d">>])

Apreset == [A EXCEPT !.Cell = [isNil |-> FALSE, v |-> <<"preset">>]]

Aexcluded == Leaf("A", "string", [NoTag EXCEPT !.env = <<"-">>, !.flag = <<"-">>, !.json = <<"-">>])

N == Leaf("N", "int", [NoTag EXCEPT !.default = <<"1">>])

Nplain == Leaf("N", "int", NoTag)

Nbaddefault == Leaf("N", "int", [NoTag EXCEPT !.default = <<"x">>])

BsameEnv == Leaf("B", "string", [NoTag EXCEPT !.env = <<"A">>])

BsameFlag == Leaf("B", "string", [NoTag EXCEPT !.flag = <<"a">>])

BsameFile == Leaf("B", "string", [NoTag EXCEPT !.json = <<"a">>])

Bmalformed == Leaf("B", "string", [NoTag EXCEPT !.required = <<"yes">>])

Bunexported == [Leaf("B", "string", [NoTag EXCEPT !.required = <<"yes">>]) EXCEPT !.CanSet = FALSE]

Preq == Leaf("P", "ptrstring", [NoTag EXCEPT !.required = <<"true">>])

C == Leaf("C", "chan", NoTag)

Cdef == Leaf("C", "chan", [NoTag EXCEPT !.default = <<"d">>])

Host == Leaf("Host", "string", NoTag)

HostExact == Leaf("Host", "string", [NoTag EXCEPT !.env = <<"HOST", ",exact">>,
                                                  !.flag = <<"host", ",omitempty">>])

HostPreset == [Host EXCEPT !.Cell = [isNil |-> FALSE, v |-> <<"preset">>]]

Port == Leaf("Port", "int", NoTag)

Db(type, anonymous, tag, members) == Record("Db", type, anonymous, tag, members)

\* A pointer member that points to a record with the given member values.
DbPointing(members) ==
    [Db("ptrstruct", FALSE, NoTag, members) EXCEPT !.Cell.isNil = FALSE]

ExcludedTag == [NoTag EXCEPT !.env = <<"-">>, !.flag = <<"-">>, !.json = <<"-">>]

Bexcluded == Leaf("B", "string", ExcludedTag)

Inner(members) == Record("Inner", "struct", FALSE, NoTag, members)

EnvPool ==
    << <<"A", "=", "e">>, <<"A", "=">>, <<"APP", "_", "A", "=", "e">>,
       <<"APP", "_", "A", "=">>, <<"APP", "_", "N", "=", "0x2">>,
       <<"APP", "_", "N", "=", "x">>, <<"APP", "_", "X", "=", "u">>,
       <<"APP", "X", "=", "u">>, <<"APP", "_", "A", "=", "e2", "=", "3">>,
       <<"APP", "_", "P", "=">> >>

EnvFamily ==
    \E d \in {<<Areq, N>>, <<A, BsameEnv>>, <<Preq, Aexcluded>>, <<Aexcluded, Bexcluded>>},
    dup \in BOOLEAN, unk \in BOOLEAN, pre \in {<<>>, <<"APP">>}, all \in BOOLEAN,
    envs \in Sublists(EnvPool, MaxEnvs) :
        /\ dst = d
        /\ config = [DefaultConfig EXCEPT !.AllowDuplicates = dup, !.AllowUnknownEnvs = unk,
                                       !.EnvPrefix = pre, !.AllFieldRequired = all,
                                       !.Envs = envs]

ArgPool ==
    << <<"-", "a", "=", "g">>, <<"-", "a", "=">>, <<"-", "app", ".", "a", "=", "g">>,
       <<"-", "app", "-", "a", "=", "g">>, <<"-", "n", "=", "2">>,
       <<"-", "app", ".", "n", "=", "x">>,
       <<"-", "app", ".", "config", "=", "base", ".json">>,
       <<"-", "zzz", "=", "1">>, <<"-", "app", "-", "db", "-", "host", "=", "g">> >>

FlagFamily ==
    \E d \in {<<A, N>>, <<A, BsameFlag>>, <<A, Db("struct", FALSE, NoTag, <<Host>>)>>,
            <<Aexcluded, N>>},
    dup \in BOOLEAN, unk \in BOOLEAN, pre \in {<<>>, <<"app">>},
    del \in {<<>>, <<"-">>}, ff \in {<<>>, <<"app", ".", "config">>},
    args \in Sublists(ArgPool, MaxArgs) :
        /\ dst = d
        /\ config = [DefaultConfig EXCEPT !.AllowDuplicates = dup, !.AllowUnknownFlags = unk,
                                       !.FlagPrefix = pre, !.FlagDelimiter = del,
                                       !.FileFlag = ff, !.Args = args]

FilePool ==
    {BaseFile, OverrideFile, EmptyValueFile, NullFile, ExtraFile, NestedFile, BadFile,
     YamlFile, MissingFile}

FileFamily ==
    \E d \in {<<Adef, Nplain>>, <<A, Db("struct", FALSE, NoTag, <<Host, Port>>)>>,
            <<A, BsameFile>>, <<Aexcluded, Nplain>>},
    merge \in BOOLEAN, unk \in BOOLEAN, fail \in BOOLEAN,
    ff \in {[flag |-> <<>>, args |-> <<>>],
            [flag |-> <<"config">>, args |-> << <<"-", "config", "=", "override", ".json">> >>],
            [flag |-> <<"config">>, args |-> << <<"-", "config", "=">> >>]},
    files \in Lists(FilePool, MaxFiles) :
        /\ dst = d
        /\ config = [DefaultConfig EXCEPT !.MergeFiles = merge, !.AllowUnknownFields = unk,
                                       !.FailOnFileNotFound = fail,
                                       !.FileFlag = ff.flag, !.Args = ff.args,
                                       !.Files = files]

PrecedenceFamily ==
    \E d \in {<<Adef, N>>, <<A, Nplain>>, <<Areq, Nbaddefault>>, <<Areqdef, N>>,
           <<Apreset, Nplain>>},
    sd \in BOOLEAN, sf \in BOOLEAN, se \in BOOLEAN, sg \in BOOLEAN, all \in BOOLEAN,
    files \in {<<>>, <<BaseFile>>},
    envs \in Sublists(<< <<"A", "=", "e">>, <<"A", "=">>, <<"N", "=", "0x2">> >>, MaxEnvs),
    args \in Sublists(<< <<"-", "a", "=", "g">>, <<"-", "a", "=">>,
                         <<"-", "n", "=", "+1">> >>, MaxArgs) :
        /\ dst = d
        /\ config = [DefaultConfig EXCEPT !.SkipDefaults = sd, !.SkipFiles = sf, !.SkipEnv = se,
                                       !.SkipFlags = sg, !.AllFieldRequired = all,
                                       !.Files = files, !.Envs = envs, !.Args = args]

SchemaPool ==
    {<<A, Db("struct", FALSE, NoTag, <<Host, Port>>)>>,
     <<DbPointing(<<HostPreset, Port>>)>>,
     <<Db("ptrstruct", FALSE, NoTag, <<Host, Port>>)>>,
     <<Db("struct", TRUE, NoTag, <<Host, Port>>)>>,
     <<Db("struct", FALSE, ExcludedTag, <<Host, Port>>)>>,
     <<Db("struct", FALSE, NoTag, <<HostExact, Port>>)>>,
     <<Db("struct", FALSE, NoTag, <<Inner(<<Host>>)>>)>>,
     <<Db("struct", FALSE, ExcludedTag, <<Inner(<<Host>>)>>)>>,
     <<A, Bmalformed>>,
     <<A, Bunexported>>,
     <<Db("struct", FALSE, NoTag, <<Host, Bmalformed>>)>>,
     <<A, C>>,
     <<A, Cdef>>}

SchemaEnvPool ==
    << <<"DB", "_", "HOST", "=", "e">>, <<"APP", "_", "DB", "_", "HOST", "=", "e">>,
       <<"HOST", "=", "e">>, <<"C", "=", "e">>, <<"DB", "_", "INNER", "_", "HOST", "=", "e">>,
       <<"INNER", "_", "HOST", "=", "e">> >>

SchemaArgPool ==
    << <<"-", "db", ".", "host", "=", "g">>, <<"-", "db", "-", "host", "=", "g">>,
       <<"-", "host", "=", "g">> >>

SchemaFamily ==
    \E d \in SchemaPool, pre \in {<<>>, <<"APP">>}, del \in {<<>>, <<"-">>},
    files \in {<<>>, <<NestedFile>>},
    envs \in Sublists(SchemaEnvPool, MaxEnvs),
    args \in Sublists(SchemaArgPool, MaxArgs - 1) :
        /\ dst = d
        /\ config = [DefaultConfig EXCEPT !.EnvPrefix = pre, !.FlagDelimiter = del,
                                       !.AllowUnknownFields = TRUE,
                                       !.Files = files, !.Envs = envs, !.Args = args]

Init ==
    /\ pc = "new"
    /\ (EnvFamily \/ FlagFamily \/ FileFamily \/ PrecedenceFamily \/ SchemaFamily)
    /\ fields = <<>>
    /\ flagSet = EmptyFlagSet
    /\ errInit = NoErr
    /\ err = NoErr
    /\ missed = <<>>

Spec == Init /\ [][Next]_vars

-----------------------------------------------------------------------------
(* What each source supplies to a field, read off the inputs *)

NoValue == [t |-> "none"]

\* Pass k (1 defaults, 2 files, 3 environment, 4 flags) has run to its end
\* without an error.
Stage ==
    CASE pc = "defaults" -> 1 [] pc = "files" -> 2 [] pc = "env" -> 3 [] pc = "flags" -> 4
      [] pc = "required" -> 5
      [] pc = "done" /\ err.kind \in {"none", "required"} -> 5
      [] OTHER -> 0

Skipped(k) ==
    CASE k = 1 -> config.SkipDefaults [] k = 2 -> config.SkipFiles
      [] k = 3 -> config.SkipEnv [] k = 4 -> config.SkipFlags

Applied(k) == Stage > k /\ ~Skipped(k)

\* A non-empty value: one that setFieldData writes.
NonEmpty(v) == v.t = "map" \/ (v.t = "str" /\ v.s # <<>>)

\* The files the files pass reads, in order.
ExistingFiles == SelectSeq(config.Files, LAMBDA f : f \in DOMAIN fsys)

LoadedFiles ==
    IF config.MergeFiles \/ ExistingFiles = <<>> THEN ExistingFiles ELSE <<Head(ExistingFiles)>>

\* An earlier field has the same file key: it consumes the key of every file
\* before the loop of loadFile comes to f.
Shadowed(f) ==
    \E j \in 1..Len(fields) :
        /\ j < (CHOOSE i \in 1..Len(fields) : fields[i].name = f.name)
        /\ fullTag(config, <<>>, fields[j], "json") = fullTag(config, <<>>, f, "json")

\* What the lookup of the field's file key finds in one file.
InFile(file, f) ==
    LET key == fullTag(config, <<>>, f, "json")
        m == find(fsys[file].m, key)
    IN  IF key # <<>> /\ key \in DOMAIN m /\ ~Shadowed(f) THEN m[key] ELSE NoValue

DefaultSupplied(f) == Str(Tag(f, "default"))

FileSupplied(f) ==
    LET having == {i \in 1..Len(LoadedFiles) : NonEmpty(InFile(LoadedFiles[i], f))}
    IN  IF having = {} THEN NoValue
        ELSE InFile(LoadedFiles[CHOOSE i \in having : \A j \in having : j <= i], f)

EnvSupplied(f) ==
    LET key == fullTag(config, config.EnvPrefix, f, "env")
    IN  IF key # <<>> /\ key \in DOMAIN getEnv(config.Envs)
        THEN getEnv(config.Envs)[key] ELSE NoValue

FlagSupplied(f) ==
    LET key == fullTag(config, config.FlagPrefix, f, "flag")
    IN  IF key # <<>> /\ key \in DOMAIN flagSet.actual
        THEN Str(flagSet.actual[key]) ELSE NoValue

Supplied(k, f) ==
    CASE k = 1 -> DefaultSupplied(f) [] k = 2 -> FileSupplied(f)
      [] k = 3 -> EnvSupplied(f) [] k = 4 -> FlagSupplied(f)

\* The passes that have run and supplied the field a non-empty value.
Suppliers(f) == {k \in 1..4 : Applied(k) /\ NonEmpty(Supplied(k, f))}

\* The value of the cell that holds the source value v.
Coerced(f, v) ==
    IF f.field.Type = "int" THEN ParseInt(Sprint(v)).n ELSE Sprint(v)

\* The cell of field i as LoaderFor left it.
WalkedCell(i) == getFields(dst).fields[i].value

-----------------------------------------------------------------------------
(* C1: after every pass that ran to its end, each cell holds the value of the
   highest-ranked source applied so far that supplied the field a non-empty
   value (flag over environment over file over default), and the cell
   LoaderFor left when none did: the passes run in the order defaults, files,
   environment, flags and a lower-ranked source never replaces a
   higher-ranked one's value. *)
C1_Precedence ==
    \A i \in 1..Len(fields) :
        Stage > 0 =>
            IF Suppliers(fields[i]) = {}
            THEN fields[i].value.v = WalkedCell(i).v
            ELSE fields[i].value.v =
                    Coerced(fields[i],
                            Supplied(CHOOSE k \in Suppliers(fields[i]) :
                                        \A j \in Suppliers(fields[i]) : j <= k,
                                     fields[i]))

\* Load returned without error with a field that a default, a file, the
\* environment and a flag all supplied, holding the flag's value.
C1_Witness ==
    /\ pc = "done" /\ err = NoErr
    /\ \E i \in 1..Len(fields) :
          /\ Suppliers(fields[i]) = 1..4
          /\ fields[i].field.Type = "string"
          /\ fields[i].value.v = <<"g">>
          /\ Supplied(3, fields[i]) = Str(<<"e">>)
          /\ Supplied(2, fields[i]) = Str(<<"f1">>)

-----------------------------------------------------------------------------
(* C2 *)

\* The fields that required-field validation must report.
Unset == {i \in 1..Len(fields) :
            ~fields[i].isSet /\ (fields[i].isRequired \/ config.AllFieldRequired)}

\* The names of the fields at the indices I, in declaration order, comma-joined.
RECURSIVE NamesOf(_)
NamesOf(I) ==
    IF I = {} THEN <<>>
    ELSE LET i == CHOOSE x \in I : \A y \in I : x <= y
         IN  IF I = {i} THEN fields[i].name
             ELSE fields[i].name \o <<",">> \o NamesOf(I \ {i})

(* C2: when every pass has succeeded, Load fails with the required-fields
   error exactly when some field is unset and required (by its tag or by
   AllFieldRequired), and the error names exactly those fields, in
   declaration order, comma-joined. *)
C2_RequiredError ==
    (pc = "done" /\ err.kind \in {"none", "required"}) =>
        /\ (err.kind = "required") <=> (Unset # {})
        /\ err.kind = "required" => err.key = NamesOf(Unset)
        /\ Len(missed) = Cardinality(Unset)

\* Load failed naming two unset required fields.
C2_Witness ==
    /\ pc = "done" /\ err.kind = "required"
    /\ Cardinality(Unset) = 2
    /\ err.key = fields[1].name \o <<",">> \o fields[2].name

-----------------------------------------------------------------------------
(* Which pass the program is past, and the keys the fields resolve to *)

\* The pass that failed.
PassOf == IF err.kind = "none" THEN "" ELSE err.pass

\* The files pass has run (to its end or to an error).
FilesRan ==
    /\ ~config.SkipFiles
    /\ \/ pc \in {"env", "flags", "required"}
       \/ pc = "done" /\ (err.kind \in {"none", "required"}
                          \/ PassOf \in {"load files", "load environment", "load flags"})

\* The environment pass has run (to its end or to an error).
EnvRan ==
    /\ ~config.SkipEnv
    /\ \/ pc \in {"flags", "required"}
       \/ pc = "done" /\ (err.kind \in {"none", "required"}
                          \/ PassOf \in {"load environment", "load flags"})

\* The state the environment pass left: no later pass has written since.
AfterEnv ==
    /\ ~config.SkipEnv
    /\ pc = "flags" \/ (pc = "done" /\ PassOf = "load environment")

EnvKey(f) == fullTag(config, config.EnvPrefix, f, "env")

FlagKey(f) == fullTag(config, config.FlagPrefix, f, "flag")

FileKey(f) == fullTag(config, <<>>, f, "json")

\* The source value v cannot be written to the field's cell.
CoercionFails(f, v) ==
    /\ NonEmpty(v)
    /\ \/ f.field.Type = "chan"
       \/ f.field.Type = "int" /\ ~ParseInt(Sprint(v)).ok

-----------------------------------------------------------------------------
(* C3 *)

\* Two distinct fields resolve to the same environment key.
SameEnvKey(i, j) ==
    i < j /\ EnvKey(fields[i]) # <<>> /\ EnvKey(fields[i]) = EnvKey(fields[j])

(* C3: in the environment pass, two distinct fields that resolve to the same
   environment key make Load fail with the duplicate-field error when
   AllowDuplicates is false (provided no value fails coercion first); when
   AllowDuplicates is true there is no duplicate error, and after the pass
   each of the two fields holds the value of that variable. *)
C3_DuplicateEnv ==
    EnvRan =>
        /\ (/\ ~config.AllowDuplicates
            /\ \E i, j \in 1..Len(fields) : SameEnvKey(i, j)
            /\ \A i \in 1..Len(fields) : ~CoercionFails(fields[i], EnvSupplied(fields[i])))
           => (pc = "done" /\ PassOf = "load environment" /\ err.kind = "duplicate")
        /\ config.AllowDuplicates =>
              /\ err.kind # "duplicate"
              /\ (AfterEnv /\ err.kind \in {"none", "unknownEnv"}) =>
                    \A i, j \in 1..Len(fields) :
                        (SameEnvKey(i, j) /\ NonEmpty(EnvSupplied(fields[i]))) =>
                            /\ fields[i].value.v = Coerced(fields[i], EnvSupplied(fields[i]))
                            /\ fields[j].value.v = Coerced(fields[j], EnvSupplied(fields[i]))
                            /\ fields[i].isSet /\ fields[j].isSet

\* With AllowDuplicates, Load returned without error and two fields of the
\* same environment key both hold the variable's value.
C3_Witness ==
    /\ pc = "done" /\ err = NoErr /\ config.AllowDuplicates
    /\ Len(fields) = 2
    /\ SameEnvKey(1, 2)
    /\ EnvSupplied(fields[1]) = Str(<<"e">>)
    /\ fields[1].value.v = <<"e">> /\ fields[2].value.v = <<"e">>

-----------------------------------------------------------------------------
(* C4 *)

\* The environment pass got as far as postEnvCheck.
EnvChecked ==
    EnvRan /\ ~(PassOf = "load environment"
                /\ err.kind \in {"duplicate", "parse", "unsupported"})

\* The variables that carry the loader's prefix and that no field resolves to.
UnresolvedEnvs ==
    {k \in DOMAIN getEnv(config.Envs) :
        /\ HasPrefix(k, config.EnvPrefix)
        /\ \A i \in 1..Len(fields) : EnvKey(fields[i]) # k}

(* C4: an environment variable that starts with the loader's environment
   prefix and that no field resolves to makes the environment pass fail with
   the unknown-environment-variable error when AllowUnknownEnvs is false and
   EnvPrefix is not empty; when EnvPrefix is empty or AllowUnknownEnvs is
   true the pass ends without error. *)
C4_UnknownEnv ==
    EnvChecked =>
        /\ (~config.AllowUnknownEnvs /\ config.EnvPrefix # <<>> /\ UnresolvedEnvs # {})
           => (pc = "done" /\ PassOf = "load environment" /\ err.kind = "unknownEnv")
        /\ (config.AllowUnknownEnvs \/ config.EnvPrefix = <<>>)
           => PassOf # "load environment"

\* Load failed on the variable APP_X, which no field resolves to.
C4_Witness ==
    /\ pc = "done" /\ PassOf = "load environment" /\ err.kind = "unknownEnv"
    /\ ~config.AllowDuplicates
    /\ err.key = <<"APP", "_", "X">>
    /\ err.key \in UnresolvedEnvs

-----------------------------------------------------------------------------
(* C5 *)

\* The cell of field i before the files pass.
BeforeFiles(i) ==
    IF ~config.SkipDefaults /\ NonEmpty(DefaultSupplied(fields[i]))
    THEN Coerced(fields[i], DefaultSupplied(fields[i]))
    ELSE WalkedCell(i).v

\* The existing files of Config.Files that hold a non-empty value for f.
Having(f) ==
    {k \in 1..Len(ExistingFiles) : NonEmpty(InFile(ExistingFiles[k], f))}

(* C5: after a files pass that succeeded, with MergeFiles off each field
   holds what the first existing file of Config.Files gives it and no later
   file has changed it; with MergeFiles on each field holds the value of the
   last existing file that gives it one.  A field no loaded file gives a
   value keeps what it held before the pass. *)
C5_MergeFiles ==
    (pc = "env" /\ ~config.SkipFiles) =>
        \A i \in 1..Len(fields) :
            IF ~config.MergeFiles
            THEN fields[i].value.v =
                    IF 1 \in Having(fields[i])
                    THEN Coerced(fields[i], InFile(ExistingFiles[1], fields[i]))
                    ELSE BeforeFiles(i)
            ELSE fields[i].value.v =
                    IF Having(fields[i]) # {}
                    THEN Coerced(fields[i],
                                 InFile(ExistingFiles[CHOOSE k \in Having(fields[i]) :
                                                        \A j \in Having(fields[i]) : j <= k],
                                        fields[i]))
                    ELSE BeforeFiles(i)

\* With MergeFiles on, base then override: A holds override's value and N,
\* which only base has, holds base's.
C5_Witness ==
    /\ pc = "env" /\ config.MergeFiles /\ ~config.SkipFiles
    /\ ExistingFiles = <<BaseFile, OverrideFile>>
    /\ Len(fields) = 2
    /\ Having(fields[1]) = {1, 2} /\ Having(fields[2]) = {1}
    /\ fields[1].value.v = <<"f2">>
    /\ fields[2].value.v = 2

-----------------------------------------------------------------------------
(* C6 *)

FileKeys == {FileKey(fields[i]) : i \in 1..Len(fields)}

\* The decoded map of a file as the field loop sees it, from field i on.
RECURSIVE Found(_, _)
Found(m, i) ==
    IF i > Len(fields) THEN m
    ELSE Found(IF FileKey(fields[i]) = <<>> \/ FileKey(fields[i]) \in DOMAIN m THEN m
               ELSE find(m, FileKey(fields[i])),
               i + 1)

\* The keys of a file that no field's file key matches.
Leftover(file) == DOMAIN Found(fsys[file].m, 1) \ FileKeys

\* The file flag was given with an empty value.
FileFlagEmpty ==
    /\ config.FileFlag # <<>>
    /\ config.FileFlag \in DOMAIN flagSet.actual
    /\ flagSet.actual[config.FileFlag] = <<>>

\* The files pass reads the file first, decodes it and can coerce its values.
LoadsFirst(file) ==
    /\ FilesRan /\ ~FileFlagEmpty
    /\ ExistingFiles # <<>> /\ file = ExistingFiles[1]
    /\ config.FailOnFileNotFound => config.Files[1] = file
    /\ Ext(file) \in FileDecoders /\ fsys[file].ok
    /\ \A i \in 1..Len(fields) : ~CoercionFails(fields[i], InFile(file, fields[i]))

(* C6: the keys of a decoded file that fields were set from are consumed, so
   the unknown-field error never names a field's file key; keys that remain
   after the field loop make loading the file fail with the unknown-field
   error naming one of them, unless AllowUnknownFields is true, and then the
   file loads without error. *)
C6_UnknownFields ==
    /\ err.kind = "unknownField" =>
          /\ ~config.AllowUnknownFields /\ PassOf = "load files"
          /\ err.key \notin FileKeys
    /\ \A file \in DOMAIN fsys :
          LoadsFirst(file) =>
              /\ (Leftover(file) # {} /\ ~config.AllowUnknownFields)
                 => /\ pc = "done" /\ err.kind = "unknownField"
                    /\ err.key \in Leftover(file)
              /\ ((Leftover(file) = {} \/ config.AllowUnknownFields) /\ ~config.MergeFiles)
                 => PassOf # "load files"

\* Loading extra.json failed on its key zzz after A was set from its key a.
C6_Witness ==
    /\ pc = "done" /\ err.kind = "unknownField" /\ err.key = <<"zzz">>
    /\ LoadsFirst(ExtraFile)
    /\ Len(fields) = 2 /\ FileKey(fields[1]) = <<"a">>
    /\ fields[1].isSet /\ fields[1].value.v = <<"f3">>

-----------------------------------------------------------------------------
(* C7 *)

(* C7: the unknown-key error of the environment pass and of the flags pass
   names only keys that were not consumed: never a key that a field resolved
   to and was set from. *)
C7_OnlyUnconsumedReported ==
    /\ (PassOf = "load environment" /\ err.kind = "unknownEnv") =>
          \A i \in 1..Len(fields) : ~(EnvKey(fields[i]) = err.key /\ fields[i].isSet)
    /\ (PassOf = "load flags" /\ err.kind = "unknownFlag") =>
          \A i \in 1..Len(fields) : ~(FlagKey(fields[i]) = err.key /\ fields[i].isSet)

-----------------------------------------------------------------------------
(* C8 *)

\* Source k (2 files, 3 environment, 4 flags) was applied and holds the
\* field's key.
ProvidedBy(k, f) ==
    /\ Applied(k)
    /\ CASE k = 2 -> \E j \in 1..Len(LoadedFiles) : InFile(LoadedFiles[j], f) # NoValue
         [] k = 3 -> EnvSupplied(f) # NoValue
         [] k = 4 -> FlagSupplied(f) # NoValue

(* C8: a field that is required (by its tag or by AllFieldRequired) must get
   a value from a file, the environment or a flag: when none of them provides
   one, Load fails with the required-fields error naming the field, also
   when the field has a default. *)
C8_DefaultIsNotEnough ==
    (pc = "done" /\ err.kind \in {"none", "required"}) =>
        \A i \in 1..Len(fields) :
            (/\ fields[i].isRequired \/ config.AllFieldRequired
             /\ \A k \in 2..4 : ~ProvidedBy(k, fields[i]))
            => /\ err.kind = "required"
               /\ \E j \in 1..Len(missed) : missed[j] = fields[i].name

-----------------------------------------------------------------------------
(* C9 *)

\* The walk meets a settable member with a malformed required tag.
RECURSIVE Malformed(_)
Malformed(members) ==
    \E i \in 1..Len(members) :
        /\ members[i].CanSet
        /\ \/ members[i].Tag.required \notin {<<>>, <<"true">>}
           \/ members[i].Type \in {"struct", "ptrstruct"} /\ Malformed(members[i].Members)

\* The walk yields a field of a kind setFieldData does not support.
RECURSIVE Unsupported(_)
Unsupported(members) ==
    \E i \in 1..Len(members) :
        /\ members[i].CanSet
        /\ \/ members[i].Type = "chan"
           \/ members[i].Type \in {"struct", "ptrstruct"} /\ Unsupported(members[i].Members)

\* The number of the pass that failed.
FailedPass ==
    CASE PassOf = "load defaults" -> 1 [] PassOf = "load files" -> 2
      [] PassOf = "load environment" -> 3 [] PassOf = "load flags" -> 4
      [] OTHER -> 0

\* Source k holds a non-empty value for the field.
Gives(k, f) ==
    IF k = 2 THEN \E j \in 1..Len(ExistingFiles) : NonEmpty(InFile(ExistingFiles[j], f))
    ELSE NonEmpty(Supplied(k, f))

(* C9: a malformed required marker makes LoaderFor itself fail (it panics),
   so no pass runs with such a schema.  A field of an unsupported kind does
   not fail LoaderFor: the unsupported-kind error comes from the first source
   pass that has a non-empty value for that field, and a Load no source of
   which has one never reports it. *)
C9_SchemaErrors ==
    /\ Malformed(dst) => pc \in {"new", "panic"}
    /\ errInit.kind # "unsupported"
    /\ (Unsupported(dst) /\ ~Malformed(dst) /\ config.FileFlag = <<>>
            /\ ~config.AllowDuplicates) => pc # "panic"
    /\ err.kind = "unsupported" =>
          /\ FailedPass \in 1..4
          /\ \E i \in 1..Len(fields) :
                /\ fields[i].field.Type = "chan" /\ err.key = fields[i].name
                /\ Gives(FailedPass, fields[i])
    /\ Stage > 0 =>
          \A i \in 1..Len(fields) :
              fields[i].field.Type = "chan" => Suppliers(fields[i]) = {}

\* LoaderFor and the defaults and files passes succeeded on a schema with a
\* channel field; the environment pass reported the unsupported kind.
C9_Witness ==
    /\ pc = "done" /\ err.kind = "unsupported" /\ PassOf = "load environment"
    /\ Unsupported(dst)
    /\ err.key = <<"C">>

(* C9 as stated: a malformed required marker and a field of an unsupported
   kind both make LoaderFor fail, so no pass runs with such a schema and no
   pass reports such an error. *)
C9_SchemaErrorsAtConstruction ==
    (Malformed(dst) \/ Unsupported(dst)) =>
        /\ pc \notin {"defaults", "files", "env", "flags", "required"}
        /\ FailedPass = 0

-----------------------------------------------------------------------------
(* C10 *)

\* The ancestors of a field, outermost first.
RECURSIVE Ancestors(_)
Ancestors(p) == IF p = Nil THEN <<>> ELSE Ancestors(p.parent) \o <<p>>

\* The declarations of the ancestors and of the field in a namespace.
Declarations(f, tag) ==
    [k \in 1..Len(Ancestors(f.parent)) |-> Tag(Ancestors(f.parent)[k], tag)]
        \o <<Tag(f, tag)>>

\* The declarations joined with sep, after the prefix.
JoinedKey(f, tag, sep, prefix) == prefix \o Join(Declarations(f, tag), sep)

\* A nested field none of whose ancestors is excluded from the namespace and
\* that neither is excluded itself nor opts out of inheriting.
Inherits(f, tag) ==
    /\ f.parent # Nil
    /\ \A k \in 1..Len(Declarations(f, tag)) : Declarations(f, tag)[k] # <<"-">>
    /\ Index(Tag(f, tag), ",exact") = 0 /\ Index(Tag(f, tag), ",omitempty") = 0

\* The value the first existing file holds under key.
UnderKey(key) ==
    IF ExistingFiles = <<>> \/ key \notin DOMAIN find(fsys[ExistingFiles[1]].m, key)
    THEN NoValue
    ELSE find(fsys[ExistingFiles[1]].m, key)[key]

\* The keys of a nested field in the three namespaces, the file key joined
\* with fileSep: the environment key is the prefix and the declarations
\* joined with "_", the flag key is registered as the prefix and the
\* declarations joined with FlagDelimiter, and the files pass sets the field
\* from the value under the file key.
KeysJoined(fileSep) ==
    pc \notin {"new", "panic"} =>
        \A i \in 1..Len(fields) :
            /\ Inherits(fields[i], "env") =>
                  EnvKey(fields[i]) = JoinedKey(fields[i], "env", <<"_">>, config.EnvPrefix)
            /\ Inherits(fields[i], "flag") =>
                  /\ FlagKey(fields[i]) =
                        JoinedKey(fields[i], "flag", config.FlagDelimiter, config.FlagPrefix)
                  /\ (errInit = NoErr /\ ~config.SkipFlags) =>
                        FlagKey(fields[i]) \in flagSet.formal
            /\ Inherits(fields[i], "json") =>
                  /\ FileKey(fields[i]) = JoinedKey(fields[i], "json", fileSep, <<>>)
                  /\ (/\ pc = "env" /\ ~config.SkipFiles /\ ~config.MergeFiles
                      /\ ~Shadowed(fields[i])
                      /\ NonEmpty(UnderKey(JoinedKey(fields[i], "json", fileSep, <<>>))))
                     => fields[i].value.v =
                           Coerced(fields[i],
                                   UnderKey(JoinedKey(fields[i], "json", fileSep, <<>>)))

(* C10: for a field nested under non-excluded ancestors the resolved key is
   the namespace prefix followed by the ancestors' declarations, outermost
   first, and the field's own, joined with the namespace delimiter: "_" for
   the environment, FlagDelimiter ("." when not set) for flags, and "." for
   every file format whatever FlagDelimiter is. *)
C10_Delimiters == KeysJoined(<<".">>)

\* With FlagDelimiter "-" and EnvPrefix APP, Db.Host resolves to
\* APP_DB_HOST, db-host and db.host, and was given values under all three.
C10_Witness ==
    /\ pc = "done" /\ err = NoErr
    /\ config.FlagDelimiter = <<"-">>
    /\ \E i \in 1..Len(fields) :
          /\ fields[i].name = <<"Db", ".", "Host">>
          /\ Inherits(fields[i], "env") /\ Inherits(fields[i], "flag")
          /\ Inherits(fields[i], "json")
          /\ EnvKey(fields[i]) = <<"APP", "_", "DB", "_", "HOST">>
          /\ FlagKey(fields[i]) = <<"db", "-", "host">>
          /\ FileKey(fields[i]) = <<"db", ".", "host">>
          /\ FileSupplied(fields[i]) = Str(<<"h">>)
          /\ EnvSupplied(fields[i]) = Str(<<"e">>)
          /\ FlagSupplied(fields[i]) = Str(<<"g">>)
          /\ fields[i].value.v = <<"g">>

(* C10 as stated: the file-format namespaces join with the configured
   delimiter, FlagDelimiter, as the flag namespace does. *)
C10_ConfiguredDelimiter == KeysJoined(config.FlagDelimiter)

-----------------------------------------------------------------------------
(* C11 *)

\* The cells of the settable leaf members, in walk order, as the destination
\* holds them when LoaderFor is called; zero under a nil pointer, which has
\* no record yet.
RECURSIVE CellsOf(_, _)
CellsOf(members, underNil) ==
    IF members = <<>> THEN <<>>
    ELSE (IF ~Head(members).CanSet THEN <<>>
          ELSE IF Head(members).Type \in {"struct", "ptrstruct"}
          THEN CellsOf(Head(members).Members,
                       underNil \/ (Head(members).Type = "ptrstruct"
                                    /\ Head(members).Cell.isNil))
          ELSE <<IF underNil THEN ZeroCell(Head(members).Type) ELSE Head(members).Cell>>)
         \o CellsOf(Tail(members), underNil)

(* C11: LoaderFor allocates a pointer-to-record member only when it is nil:
   after construction the members of a record the destination already
   pointed to hold the values they had, and the members under a nil pointer
   are those of a fresh zero record. *)
C11_AllocatesOnlyUnset ==
    pc = "ready" =>
        /\ Len(fields) = Len(CellsOf(dst, FALSE))
        /\ \A i \in 1..Len(fields) : fields[i].value = CellsOf(dst, FALSE)[i]

-----------------------------------------------------------------------------
(* C12 *)

Namespaces == {"env", "flag", "json"}

\* The key of a field in a namespace, as the namespace's pass resolves it.
KeyIn(f, tag) ==
    CASE tag = "env" -> EnvKey(f) [] tag = "flag" -> FlagKey(f) [] tag = "json" -> FileKey(f)

\* The delimiter and the prefix of a namespace.
DelimiterOf(tag) ==
    CASE tag = "env" -> <<"_">> [] tag = "flag" -> config.FlagDelimiter
      [] tag = "json" -> <<".">>

PrefixOf(tag) ==
    CASE tag = "env" -> config.EnvPrefix [] tag = "flag" -> config.FlagPrefix
      [] tag = "json" -> <<>>

\* The field's own declaration excludes it from the namespace.
Excluded(f, tag) == Tag(f, tag) = <<"-">>

\* The declarations of the ancestors and of the field without the excluded
\* ones.
Contributing(f, tag) == SelectSeq(Declarations(f, tag), LAMBDA d : d # <<"-">>)

\* The pass the program is about to run.
PassAt ==
    CASE pc = "files" -> "json" [] pc = "env" -> "env" [] pc = "flags" -> "flag"
      [] OTHER -> "none"

\* Keys of excluded fields and of fields under excluded ancestors, and the
\* descriptors that key resolution reads.
C12_Keys ==
    pc \notin {"new", "panic"} =>
        /\ <<>> \notin flagSet.formal
        /\ err.kind \in {"duplicate", "unknownEnv", "unknownFlag", "unknownField"}
              => err.key # <<>>
        /\ \A i \in 1..Len(fields) :
              /\ fields[i].tags = getFields(dst).fields[i].tags
              /\ fields[i].parent = getFields(dst).fields[i].parent
              /\ fields[i].name = getFields(dst).fields[i].name
              /\ \A tag \in Namespaces :
                    /\ Excluded(fields[i], tag) => KeyIn(fields[i], tag) = <<>>
                    /\ (/\ ~Excluded(fields[i], tag)
                        /\ Index(Tag(fields[i], tag), ",exact") = 0
                        /\ Index(Tag(fields[i], tag), ",omitempty") = 0)
                       => KeyIn(fields[i], tag) =
                             PrefixOf(tag) \o Join(Contributing(fields[i], tag),
                                                   DelimiterOf(tag))

\* A pass leaves a field alone that is excluded from its namespace.
C12_Untouched ==
    \A i \in 1..Len(fields) :
        (PassAt # "none" /\ Excluded(fields[i], PassAt)) => fields'[i] = fields[i]

(* C12: a field whose own declaration in a namespace is "-" resolves to the
   empty key, and the namespace's pass neither writes it nor marks it set
   nor records a key for it; an ancestor whose declaration is "-" adds no
   segment to its descendants' keys while the other ancestors add theirs;
   and the passes leave the descriptor's name, parent and tags as the walk
   made them, so a key resolves the same every time. *)
C12_Exclusion == [](C12_Keys) /\ [][C12_Untouched]_vars

\* Db is excluded from the environment and Inner is not: Db.Inner.Host
\* resolved to INNER_HOST and was set from it.
C12_Witness ==
    /\ pc = "done" /\ err = NoErr
    /\ \E i \in 1..Len(fields) :
          /\ fields[i].name = <<"Db", ".", "Inner", ".", "Host">>
          /\ Declarations(fields[i], "env") = << <<"-">>, <<"INNER">>, <<"HOST">> >>
          /\ EnvKey(fields[i]) = <<"INNER", "_", "HOST">>
          /\ EnvSupplied(fields[i]) = Str(<<"e">>)
          /\ fields[i].isSet /\ fields[i].value.v = <<"e">>

-----------------------------------------------------------------------------
(* C13 *)

\* The environment holds the field's key with the empty string as value.
EmptyInEnv(f) == EnvSupplied(f) = Str(<<>>)

\* The cell of field i before the environment pass.
BeforeEnv(i) ==
    IF ~config.SkipFiles /\ NonEmpty(FileSupplied(fields[i]))
    THEN Coerced(fields[i], FileSupplied(fields[i]))
    ELSE BeforeFiles(i)

(* C13: when the environment holds a field's key with an empty value, the
   environment pass reports no error for it and leaves the (non-pointer)
   cell as the earlier passes wrote it, yet marks the field set and consumes
   the key: the field is not among the missing required fields and the key
   is not reported as an unknown variable. *)
C13_EmptyEnvValue ==
    EnvChecked =>
        \A i \in 1..Len(fields) :
            (EmptyInEnv(fields[i]) /\ fields[i].field.Type \in {"string", "int"}) =>
                /\ err.kind = "unknownEnv" => err.key # EnvKey(fields[i])
                /\ AfterEnv => /\ fields[i].isSet
                               /\ fields[i].value.v = BeforeEnv(i)
                /\ (pc = "done" /\ err.kind \in {"none", "required"}) =>
                      \A j \in 1..Len(missed) : missed[j] # fields[i].name

=============================================================================
